---- MODULE Spec2Model ----
(***************************************************************************)
(* CardScan (GhandourGh/Deck-Card-Detection): the detection aggregation    *)
(* pipeline of app.py and src/utils.py.                                    *)
(*                                                                         *)
(* Confidences are percentages (0.5 is 50), pixel coordinates are          *)
(* integers, and the Euclidean distance test dist < 250 of                 *)
(* filter_duplicates is computed on squares (dx^2 + dy^2 < 250^2), which   *)
(* is the same test on integer coordinates.                                *)
(***************************************************************************)
EXTENDS Integers, Sequences, FiniteSets, TLC

VARIABLES
    \* ---- detect_cards and get_full_card_name applied to one input ----
    http_outcome,       \* what the HTTP request of detect_cards does
    sdk_outcome,        \* what the fallback client.infer does, where called
    returned,           \* the value detect_cards returns
    code,               \* the class code handed to get_full_card_name
    full_name,          \* get_full_card_name(code)
    call_stage,         \* "input" | "done"
    \* ---- filter_duplicates applied to one raw prediction list ----
    predictions,        \* the raw list handed to filter_duplicates
    result,             \* filter_duplicates(predictions)
    result2,            \* filter_duplicates(result)
    stage,              \* "raw" | "filtered" | "refiltered"
    \* ---- CardDetector (one live stream) ----
    playing,            \* ctx.state.playing
    lock,               \* self.lock: "free", or held by "recv" or by a "task"
    detection_running,  \* self.detection_running
    last_predictions,   \* self.last_predictions
    recv_pc,            \* position of the frame-delivery thread inside recv
    recv_predictions,   \* recv's local copy of last_predictions
    recv_submitted,     \* whether the current recv call started a task
    task_pc,            \* position of each background thread in _run_detection
    task_result,        \* each background thread's detect_cards result
    \* ---- the Streamlit session ----
    detection_mode,     \* the radio: "Live Camera" | "Upload Image"
    uploaded_file,      \* whether the file_uploader holds a file
    run_pending,        \* a script run is due (upload, st.rerun())
    upload_reconciled,  \* the held file has been tallied since upload / reset
    card_history,       \* st.session_state.card_history
    best_seen,          \* history: max confidence tallied per class since reset
    most_seen,          \* history: per class, the most instances in one
                        \* tallied prediction set since reset
    changed,            \* the polling loop's changed flag of its last iteration
    upload_predictions, \* the filtered predictions of the last upload-mode run
    reconciled          \* history: a polling iteration has read the stored
                        \* last_predictions since it was assigned

callVars == <<http_outcome, sdk_outcome, returned, code, full_name, call_stage>>
filterVars == <<predictions, result, result2, stage>>
streamVars == <<playing, lock, detection_running, last_predictions, recv_pc,
                recv_predictions, recv_submitted, task_pc, task_result>>
sessionVars == <<detection_mode, uploaded_file, run_pending, upload_reconciled,
                 card_history, best_seen, most_seen, changed,
                 upload_predictions>>
vars == <<callVars, filterVars, streamVars, sessionVars, reconciled>>

----------------------------------------------------------------------------
(* Configuration (src/config.py) *)

CONFIDENCE_THRESHOLD == 50

DUPLICATE_DISTANCE_THRESHOLD == 250

----------------------------------------------------------------------------
(* Bounds of the model *)

\* longest raw prediction list handed to filter_duplicates on its own
MaxLen == 3

\* longest prediction list in one inference response of the running app
MaxFrame == 2

\* background threads that can exist at once
MaxTasks == 2

\* cap on a tally count (upload mode adds to it on every script run)
MaxCount == 2

\* longest class code handed to get_full_card_name
MaxCodeLen == 3

----------------------------------------------------------------------------
(* Predictions *)

Classes == {"KH", "7S"}

Confidences == {40, 50, 90}

\* (0,0)-(150,200) are exactly 250 apart; (100,100) is within 250 of both
Centers == {<<0, 0>>, <<150, 200>>, <<100, 100>>}

Pred(c, conf, xy, sized) ==
    [class |-> c, confidence |-> conf, x |-> xy[1], y |-> xy[2], sized |-> sized]

\* every well-formed prediction over the small domains; sized says whether
\* the width and height keys are present
Predictions ==
    {Pred(c, conf, xy, TRUE) : c \in Classes, conf \in Confidences, xy \in Centers}

SeqsUpTo(S, n) == UNION {[1..k -> S] : k \in 0..n}

----------------------------------------------------------------------------
(* utils.filter_duplicates *)

KeepConfidentStrict(p) == p.confidence > CONFIDENCE_THRESHOLD

\* line 169: p['confidence'] >= config.CONFIDENCE_THRESHOLD
KeepConfident(p) == p.confidence >= CONFIDENCE_THRESHOLD

Dist2(pred, existing) ==
    (pred.x - existing.x) * (pred.x - existing.x)
        + (pred.y - existing.y) * (pred.y - existing.y)

IsDuplicateOfAnyClass(pred, existing) ==
    Dist2(pred, existing)
        < DUPLICATE_DISTANCE_THRESHOLD * DUPLICATE_DISTANCE_THRESHOLD

IsDuplicateOfInclusive(pred, existing) ==
    /\ existing.class = pred.class
    /\ Dist2(pred, existing)
           <= DUPLICATE_DISTANCE_THRESHOLD * DUPLICATE_DISTANCE_THRESHOLD

\* lines 177-181: same class and dist < DUPLICATE_DISTANCE_THRESHOLD
IsDuplicateOf(pred, existing) ==
    /\ existing.class = pred.class
    /\ Dist2(pred, existing)
           < DUPLICATE_DISTANCE_THRESHOLD * DUPLICATE_DISTANCE_THRESHOLD

RECURSIVE InsertByConfidenceTiesFirst(_, _)
InsertByConfidenceTiesFirst(p, s) ==
    IF s = <<>> THEN <<p>>
    ELSE IF Head(s).confidence > p.confidence
         THEN <<Head(s)>> \o InsertByConfidenceTiesFirst(p, Tail(s))
         ELSE <<p>> \o s

\* one insertion of the stable descending sort: p goes after every element
\* whose confidence is >= its own
RECURSIVE InsertByConfidence(_, _)
InsertByConfidence(p, s) ==
    IF s = <<>> THEN <<p>>
    ELSE IF Head(s).confidence >= p.confidence
         THEN <<Head(s)>> \o InsertByConfidence(p, Tail(s))
         ELSE <<p>> \o s

\* the element of a singleton set; {F(v) : v \in {e}} evaluates e once and
\* hands F its value
Only(S) == CHOOSE v \in S : TRUE

\* line 173: sorted(predictions, key=confidence, reverse=True); Python's sort
\* is stable, and reverse=True keeps equal keys in their original order
RECURSIVE SortedByConfidence(_)
SortedByConfidence(s) ==
    IF s = <<>> THEN <<>>
    ELSE Only({InsertByConfidence(s[Len(s)], rest) :
                  rest \in {SortedByConfidence(SubSeq(s, 1, Len(s) - 1))}})

\* lines 172-186: the greedy loop over the sorted list
RECURSIVE AcceptDistinct(_, _)
AcceptDistinct(sorted, acc) ==
    IF sorted = <<>> THEN acc
    ELSE LET pred == Head(sorted)
             is_duplicate == \E i \in 1..Len(acc) : IsDuplicateOf(pred, acc[i])
         IN  Only({AcceptDistinct(Tail(sorted), next) :
                      next \in {IF is_duplicate THEN acc ELSE Append(acc, pred)}})

\* lines 155-186
filter_duplicates(preds) ==
    IF preds = <<>> THEN <<>>
    ELSE Only({AcceptDistinct(sorted, <<>>) :
                  sorted \in {SortedByConfidence(SelectSeq(preds, KeepConfident))}})

----------------------------------------------------------------------------
(* The inference collaborator and utils.detect_cards *)

\* what the service returns while the app runs: a low and a high confidence
\* King of Hearts exactly 250 px apart, a sub-threshold one, and a Seven of
\* Spades whose width/height keys are missing
ServicePredictions ==
    { Pred("KH", 50, <<0, 0>>, TRUE),
      Pred("KH", 90, <<150, 200>>, TRUE),
      Pred("KH", 40, <<100, 100>>, TRUE),
      Pred("7S", 90, <<100, 100>>, FALSE) }

\* a response body's list of detections, each detection listed once;
\* malformed: some entry lacks the 'confidence' key (the entries are then not
\* kept in the model)
Payloads ==
    {[items |-> s, malformed |-> FALSE] :
        s \in {q \in SeqsUpTo(ServicePredictions, MaxFrame) :
                  \A i, j \in 1..Len(q) : i # j => q[i] # q[j]}}
        \cup {[items |-> <<>>, malformed |-> TRUE]}

\* outcomes of requests.post / raise_for_status / response.json (lines 100-103)
\* and of everything else in the try block
HttpOutcomes ==
    {[kind |-> "dict", key |-> k, payload |-> p] :
        k \in {"predictions", "results", "detections"}, p \in Payloads}
      \cup {[kind |-> "dict", key |-> "none", payload |-> [items |-> <<>>, malformed |-> FALSE]]}
      \cup {[kind |-> "list", key |-> "none", payload |-> p] : p \in Payloads}
      \cup {[kind |-> k, key |-> "none", payload |-> [items |-> <<>>, malformed |-> FALSE]] :
                k \in {"RequestException", "Exception"}}

\* outcomes of the fallback client.infer (line 126)
SdkOutcomes ==
    {[kind |-> "result", has_predictions |-> h, payload |-> p] :
        h \in BOOLEAN, p \in Payloads}
      \cup {[kind |-> "raises", has_predictions |-> FALSE,
             payload |-> [items |-> <<>>, malformed |-> FALSE]]}

\* a detect_cards return value: whether it has a 'predictions' key, and the list
Result(has, payload) ==
    [has_predictions |-> has,
     malformed |-> has /\ payload.malformed,
     predictions |-> IF has THEN payload.items ELSE <<>>]

EmptyResult == Result(TRUE, [items |-> <<>>, malformed |-> FALSE])

NoResult == Result(FALSE, [items |-> <<>>, malformed |-> FALSE])

detect_cards_fallback_unguarded(http, sdk) ==
    CASE http.kind = "dict" ->
            Result(http.key \in {"predictions", "results", "detections"}, http.payload)
      [] http.kind = "list" ->
            Result(TRUE, http.payload)
      [] http.kind = "RequestException" ->
            IF sdk.kind = "result"
            THEN Result(sdk.has_predictions, sdk.payload)
            ELSE NoResult
      [] OTHER ->
            EmptyResult

\* lines 44-133
detect_cards(http, sdk) ==
    CASE http.kind = "dict" ->
            \* lines 109-118: alias results / detections to predictions
            Result(http.key \in {"predictions", "results", "detections"}, http.payload)
      [] http.kind = "list" ->
            \* lines 113-114
            Result(TRUE, http.payload)
      [] http.kind = "RequestException" ->
            \* lines 120-130: the SDK's result is returned as it is
            IF sdk.kind = "result"
            THEN Result(sdk.has_predictions, sdk.payload)
            ELSE EmptyResult
      [] OTHER ->
            \* lines 131-133
            EmptyResult

\* the fallback is called only after a RequestException (line 120): a call's
\* outcome is an HTTP outcome, paired with an SDK outcome where one happens
NotCalled ==
    [kind |-> "not called", has_predictions |-> FALSE,
     payload |-> [items |-> <<>>, malformed |-> FALSE]]

CallOutcomes ==
    {<<h, NotCalled>> : h \in {o \in HttpOutcomes : o.kind # "RequestException"}}
      \cup ({o \in HttpOutcomes : o.kind = "RequestException"} \X SdkOutcomes)

\* every value detect_cards can return
DetectResults == {detect_cards(o[1], o[2]) : o \in CallOutcomes}

\* utils.draw_boxes_cv reads pred['width'] and pred['height'] (line 202)
draw_boxes_cv_raises(preds) == \E i \in 1..Len(preds) : ~preds[i].sized

----------------------------------------------------------------------------
(* Card names (src/utils.py get_full_card_name, src/config.py) *)

\* a class code is a string, here the sequence of its characters
CodeChars == {"A", "a", "1", "0", "7", "H", "S", "h", "X"}

Codes == SeqsUpTo(CodeChars, MaxCodeLen)

\* config.py lines 11-15
RANKS ==
    (<<"A">> :> "Ace") @@ (<<"2">> :> "2") @@ (<<"3">> :> "3") @@ (<<"4">> :> "4")
      @@ (<<"5">> :> "5") @@ (<<"6">> :> "6") @@ (<<"7">> :> "7") @@ (<<"8">> :> "8")
      @@ (<<"9">> :> "9") @@ (<<"1", "0">> :> "10") @@ (<<"J">> :> "Jack")
      @@ (<<"Q">> :> "Queen") @@ (<<"K">> :> "King")

\* config.py lines 17-22
SUITS ==
    ("H" :> [name |-> "Hearts", emoji |-> "heart suit"])
      @@ ("D" :> [name |-> "Diamonds", emoji |-> "diamond suit"])
      @@ ("S" :> [name |-> "Spades", emoji |-> "spade suit"])
      @@ ("C" :> [name |-> "Clubs", emoji |-> "club suit"])

\* str.upper() on one character of CodeChars
upper(ch) ==
    CASE ch = "a" -> "A"
      [] ch = "h" -> "H"
      [] OTHER -> ch

\* utils.py line 152: the joker emoji, a space, and the code as it came
Fallback(card_name) == <<"joker", " ">> \o card_name

\* utils.py line 150
Formatted(rank_part, suit_char) ==
    <<SUITS[suit_char].emoji, " ", RANKS[rank_part], " of ", SUITS[suit_char].name>>

get_full_card_name_exact_case(card_name) ==
    IF Len(card_name) >= 2
    THEN LET suit_char == card_name[Len(card_name)]
             rank_part == SubSeq(card_name, 1, Len(card_name) - 1)
         IN  IF suit_char \in DOMAIN SUITS /\ rank_part \in DOMAIN RANKS
             THEN Formatted(rank_part, suit_char)
             ELSE Fallback(card_name)
    ELSE Fallback(card_name)

\* utils.py lines 136-152
get_full_card_name(card_name) ==
    IF Len(card_name) >= 2
    THEN LET suit_char == upper(card_name[Len(card_name)])
             rank_part == SubSeq(card_name, 1, Len(card_name) - 1)
         IN  IF suit_char \in DOMAIN SUITS /\ rank_part \in DOMAIN RANKS
             THEN Formatted(rank_part, suit_char)
             ELSE Fallback(card_name)
    ELSE Fallback(card_name)

----------------------------------------------------------------------------
(* The session tally: st.session_state.card_history *)

EmptyHistory == [c \in {} |-> [count |-> 0, confidence |-> 0]]

Max(a, b) == IF a >= b THEN a ELSE b

MaxOf(S) == CHOOSE m \in S : \A n \in S : m >= n

ClassesIn(preds) == {preds[i].class : i \in 1..Len(preds)}

ConfidencesOf(preds, c) ==
    {preds[i].confidence : i \in {j \in 1..Len(preds) : preds[j].class = c}}

\* app.py lines 276-283
CurrentCounts(preds) ==
    [c \in ClassesIn(preds) |->
        [count |-> Cardinality({i \in 1..Len(preds) : preds[i].class = c}),
         confidence |-> MaxOf(ConfidencesOf(preds, c))]]

ReconcileEntryOverwrite(old, data) == [old EXCEPT !.count = data.count]

\* app.py lines 290-294: a class already in the tally
ReconcileEntry(old, data) ==
    IF data.count > old.count THEN [old EXCEPT !.count = data.count] ELSE old

ReconcileDroppingAbsent(history, current_counts) ==
    [c \in DOMAIN current_counts |->
        IF c \notin DOMAIN history THEN current_counts[c]
        ELSE ReconcileEntry(history[c], current_counts[c])]

ReconcileWithoutInsert(history, current_counts) ==
    [c \in DOMAIN history |->
        IF c \in DOMAIN current_counts
        THEN ReconcileEntry(history[c], current_counts[c])
        ELSE history[c]]

\* app.py lines 286-294
Reconcile(history, current_counts) ==
    [c \in DOMAIN history \cup DOMAIN current_counts |->
        IF c \notin DOMAIN history THEN current_counts[c]
        ELSE IF c \in DOMAIN current_counts
             THEN ReconcileEntry(history[c], current_counts[c])
             ELSE history[c]]

ReconcileChangedOnEqual(history, current_counts) ==
    \E c \in DOMAIN current_counts :
        \/ c \notin DOMAIN history
        \/ current_counts[c].count >= history[c].count

\* app.py lines 289, 294: the changed flag
ReconcileChanged(history, current_counts) ==
    \E c \in DOMAIN current_counts :
        \/ c \notin DOMAIN history
        \/ current_counts[c].count > history[c].count

\* app.py lines 214-227: one entry per filtered prediction
RECURSIVE UploadTally(_, _)
UploadTally(history, preds) ==
    IF preds = <<>> THEN history
    ELSE LET pred == Head(preds)
             card_name == pred.class
             next ==
                 IF card_name \notin DOMAIN history
                 THEN history @@ (card_name :> [count |-> 1, confidence |-> pred.confidence])
                 ELSE [history EXCEPT ![card_name] =
                          [count |-> @.count + 1,
                           confidence |-> Max(@.confidence, pred.confidence)]]
         IN  UploadTally(next, Tail(preds))

\* history variable: the highest confidence tallied per class since the reset
BestSeenAfter(best, preds) ==
    [c \in DOMAIN best \cup ClassesIn(preds) |->
        IF c \notin ClassesIn(preds) THEN best[c]
        ELSE IF c \notin DOMAIN best THEN MaxOf(ConfidencesOf(preds, c))
        ELSE Max(best[c], MaxOf(ConfidencesOf(preds, c)))]

\* app.py lines 276-283 (upload mode: lines 214-217): the largest number of
\* instances of each class in one prediction set tallied so far
MostSeenAfter(most, preds) ==
    [c \in DOMAIN most \cup ClassesIn(preds) |->
        IF c \notin ClassesIn(preds) THEN most[c]
        ELSE IF c \notin DOMAIN most THEN CurrentCounts(preds)[c].count
        ELSE Max(most[c], CurrentCounts(preds)[c].count)]

----------------------------------------------------------------------------
(* Initial state: the script's first run, no stream started, nothing uploaded *)

Tasks == 1..MaxTasks

InFlight == {t \in Tasks : task_pc[t] # "none"}

InitCallIdle ==
    /\ http_outcome = NotCalled
    /\ sdk_outcome = NotCalled
    /\ returned = NoResult
    /\ code = <<>>
    /\ full_name = <<>>
    /\ call_stage = "input"

InitFilterIdle ==
    /\ predictions = <<>>
    /\ result = <<>>
    /\ result2 = <<>>
    /\ stage = "raw"

\* CardDetector.__init__ (app.py lines 40-43), before the stream plays
InitStream ==
    /\ playing = FALSE
    /\ lock = "free"
    /\ detection_running = FALSE
    /\ last_predictions = <<>>
    /\ recv_pc = "idle"
    /\ recv_predictions = <<>>
    /\ recv_submitted = FALSE
    /\ task_pc = [t \in Tasks |-> "none"]
    /\ task_result = [t \in Tasks |-> NoResult]

\* app.py lines 81-82, 99-104 (the radio's first option), 164
InitSession ==
    /\ detection_mode = "Live Camera"
    /\ uploaded_file = FALSE
    /\ run_pending = FALSE
    /\ upload_reconciled = FALSE
    /\ card_history = EmptyHistory
    /\ best_seen = [c \in {} |-> 0]
    /\ most_seen = [c \in {} |-> 0]
    /\ changed = FALSE
    /\ upload_predictions = <<>>
    /\ reconciled = TRUE

Init == InitCallIdle /\ InitFilterIdle /\ InitStream /\ InitSession

----------------------------------------------------------------------------
(* The live stream: CardDetector.recv on the frame-delivery thread *)

RecvCheckIgnoringFlag ==
    /\ playing
    /\ recv_pc \in {"idle", "returned", "raised"}
    /\ recv_pc' = "set"
    /\ recv_predictions' = <<>>
    /\ recv_submitted' = FALSE
    /\ UNCHANGED <<playing, lock, detection_running, last_predictions, task_pc, task_result>>
    /\ UNCHANGED <<callVars, filterVars, sessionVars, reconciled>>

\* lines 66-68: a frame arrives; test the busy flag
RecvCheck ==
    /\ playing
    /\ recv_pc \in {"idle", "returned", "raised"}
    /\ recv_pc' = IF ~detection_running THEN "set" ELSE "lock"
    /\ recv_predictions' = <<>>
    /\ recv_submitted' = FALSE
    /\ UNCHANGED <<playing, lock, detection_running, last_predictions, task_pc, task_result>>
    /\ UNCHANGED <<callVars, filterVars, sessionVars, reconciled>>

\* line 69
RecvSetFlag ==
    /\ recv_pc = "set"
    /\ detection_running' = TRUE
    /\ recv_pc' = "spawn"
    /\ UNCHANGED <<playing, lock, last_predictions, recv_predictions, recv_submitted,
                   task_pc, task_result>>
    /\ UNCHANGED <<callVars, filterVars, sessionVars, reconciled>>

\* line 70: threading.Thread(target=self._run_detection, ...).start()
RecvSpawn ==
    /\ recv_pc = "spawn"
    /\ \E t \in Tasks :
          /\ task_pc[t] = "none"
          /\ \A u \in Tasks : task_pc[u] = "none" => t <= u
          /\ task_pc' = [task_pc EXCEPT ![t] = "detect"]
    /\ recv_submitted' = TRUE
    /\ recv_pc' = "lock"
    /\ UNCHANGED <<playing, lock, detection_running, last_predictions, recv_predictions,
                   task_result>>
    /\ UNCHANGED <<callVars, filterVars, sessionVars, reconciled>>

\* line 72: with self.lock
RecvLock ==
    /\ recv_pc = "lock"
    /\ lock = "free"
    /\ lock' = "recv"
    /\ recv_pc' = "copy"
    /\ UNCHANGED <<playing, detection_running, last_predictions, recv_predictions,
                   recv_submitted, task_pc, task_result>>
    /\ UNCHANGED <<callVars, filterVars, sessionVars, reconciled>>

\* line 73, and the release at the end of the with block
RecvCopy ==
    /\ recv_pc = "copy"
    /\ recv_predictions' = last_predictions
    /\ lock' = "free"
    /\ recv_pc' = "draw"
    /\ UNCHANGED <<playing, detection_running, last_predictions, recv_submitted,
                   task_pc, task_result>>
    /\ UNCHANGED <<callVars, filterVars, sessionVars, reconciled>>

\* lines 75-78: draw the overlay and return the frame, or leave recv by the
\* KeyError of draw_boxes_cv; the call's locals end with it
RecvDraw ==
    /\ recv_pc = "draw"
    /\ recv_pc' = IF recv_predictions # <<>> /\ draw_boxes_cv_raises(recv_predictions)
                  THEN "raised" ELSE "returned"
    /\ recv_predictions' = <<>>
    /\ recv_submitted' = FALSE
    /\ UNCHANGED <<playing, lock, detection_running, last_predictions, task_pc, task_result>>
    /\ UNCHANGED <<callVars, filterVars, sessionVars, reconciled>>

----------------------------------------------------------------------------
(* The live stream: CardDetector._run_detection on a background thread *)

\* lines 52-54: the call to detect_cards and the test for 'predictions'
TaskDetect(t) ==
    /\ task_pc[t] = "detect"
    /\ \E r \in DetectResults :
          /\ task_result' = [task_result EXCEPT ![t] = r]
          /\ task_pc' = [task_pc EXCEPT ![t] =
                            IF r.has_predictions THEN "lock" ELSE "finally"]
    /\ UNCHANGED <<playing, lock, detection_running, last_predictions, recv_pc,
                   recv_predictions, recv_submitted>>
    /\ UNCHANGED <<callVars, filterVars, sessionVars, reconciled>>

\* line 55: with self.lock
TaskLock(t) ==
    /\ task_pc[t] = "lock"
    /\ lock = "free"
    /\ lock' = "task"
    /\ task_pc' = [task_pc EXCEPT ![t] = "store"]
    /\ UNCHANGED <<playing, detection_running, last_predictions, recv_pc,
                   recv_predictions, recv_submitted, task_result>>
    /\ UNCHANGED <<callVars, filterVars, sessionVars, reconciled>>

TaskStoreUnfiltered(t) ==
    /\ task_pc[t] = "store"
    /\ last_predictions' = IF task_result[t].malformed
                           THEN last_predictions
                           ELSE task_result[t].predictions
    /\ reconciled' = (task_result[t].malformed /\ reconciled)
    /\ lock' = "free"
    /\ task_pc' = [task_pc EXCEPT ![t] = "finally"]
    /\ UNCHANGED <<playing, detection_running, recv_pc, recv_predictions,
                   recv_submitted, task_result>>
    /\ UNCHANGED <<callVars, filterVars, sessionVars>>

\* line 56 and the release of the lock; a KeyError of filter_duplicates on a
\* malformed entry leaves the with block without the assignment (lines 57-62)
TaskStore(t) ==
    /\ task_pc[t] = "store"
    /\ last_predictions' = IF task_result[t].malformed
                           THEN last_predictions
                           ELSE filter_duplicates(task_result[t].predictions)
    /\ reconciled' = (task_result[t].malformed /\ reconciled)
    /\ lock' = "free"
    /\ task_pc' = [task_pc EXCEPT ![t] = "finally"]
    /\ UNCHANGED <<playing, detection_running, recv_pc, recv_predictions,
                   recv_submitted, task_result>>
    /\ UNCHANGED <<callVars, filterVars, sessionVars>>

TaskFinallyOnSuccessOnly(t) ==
    /\ task_pc[t] = "finally"
    /\ detection_running' =
          IF task_result[t].has_predictions /\ ~task_result[t].malformed
          THEN FALSE ELSE detection_running
    /\ task_pc' = [task_pc EXCEPT ![t] = "none"]
    /\ task_result' = [task_result EXCEPT ![t] = NoResult]
    /\ UNCHANGED <<playing, lock, last_predictions, recv_pc, recv_predictions,
                   recv_submitted>>
    /\ UNCHANGED <<callVars, filterVars, sessionVars, reconciled>>

\* lines 63-64: finally: self.detection_running = False
TaskFinally(t) ==
    /\ task_pc[t] = "finally"
    /\ detection_running' = FALSE
    /\ task_pc' = [task_pc EXCEPT ![t] = "none"]
    /\ task_result' = [task_result EXCEPT ![t] = NoResult]
    /\ UNCHANGED <<playing, lock, last_predictions, recv_pc, recv_predictions,
                   recv_submitted>>
    /\ UNCHANGED <<callVars, filterVars, sessionVars, reconciled>>

----------------------------------------------------------------------------
(* The live stream: start and stop (webrtc_streamer, app.py lines 120-132) *)

\* video_processor_factory=CardDetector: a started stream gets a fresh
\* CardDetector.  The model starts one only after the previous stream's
\* threads have ended, so that one object's state is all there is.
StartStream ==
    /\ detection_mode = "Live Camera"
    /\ ~playing
    /\ InFlight = {}
    /\ recv_pc \in {"idle", "returned", "raised"}
    /\ playing' = TRUE
    /\ lock' = "free"
    /\ detection_running' = FALSE
    /\ last_predictions' = <<>>
    /\ recv_pc' = "idle"
    /\ recv_predictions' = <<>>
    /\ recv_submitted' = FALSE
    /\ reconciled' = TRUE
    /\ UNCHANGED <<task_pc, task_result>>
    /\ UNCHANGED <<callVars, filterVars, sessionVars>>

\* the user stops the stream; threads already running are left to finish
StopStream ==
    /\ playing
    /\ playing' = FALSE
    /\ UNCHANGED <<lock, detection_running, last_predictions, recv_pc, recv_predictions,
                   recv_submitted, task_pc, task_result>>
    /\ UNCHANGED <<callVars, filterVars, sessionVars, reconciled>>

----------------------------------------------------------------------------
(* The Streamlit session: the script of app.py *)

PollLoopIgnoringStop ==
    /\ detection_mode = "Live Camera"
    /\ lock = "free"
    /\ LET current_counts == CurrentCounts(last_predictions)
       IN  /\ card_history' = Reconcile(card_history, current_counts)
           /\ changed' = ReconcileChanged(card_history, current_counts)
    /\ best_seen' = BestSeenAfter(best_seen, last_predictions)
    /\ most_seen' = MostSeenAfter(most_seen, last_predictions)
    /\ reconciled' = TRUE
    /\ UNCHANGED <<detection_mode, uploaded_file, run_pending, upload_reconciled,
                   upload_predictions>>
    /\ UNCHANGED <<callVars, filterVars, streamVars>>

\* lines 268-299, one iteration of the update loop.  get_predictions (lines
\* 45-47) takes the lock for the copy alone, so the iteration is one step
\* that needs the lock free.
PollLoop ==
    /\ detection_mode = "Live Camera"
    /\ playing
    /\ lock = "free"
    /\ LET current_counts == CurrentCounts(last_predictions)
       IN  /\ card_history' = Reconcile(card_history, current_counts)
           /\ changed' = ReconcileChanged(card_history, current_counts)
    /\ best_seen' = BestSeenAfter(best_seen, last_predictions)
    /\ most_seen' = MostSeenAfter(most_seen, last_predictions)
    /\ reconciled' = TRUE
    /\ UNCHANGED <<detection_mode, uploaded_file, run_pending, upload_reconciled,
                   upload_predictions>>
    /\ UNCHANGED <<callVars, filterVars, streamVars>>

\* lines 164-168: the user puts a file into the file_uploader
UploadFile ==
    /\ detection_mode = "Upload Image"
    /\ uploaded_file' = TRUE
    /\ run_pending' = TRUE
    /\ upload_reconciled' = FALSE
    /\ UNCHANGED <<detection_mode, card_history, best_seen, most_seen, changed,
                   upload_predictions>>
    /\ UNCHANGED <<callVars, filterVars, streamVars, reconciled>>

\* lines 185-228: whether a script run with this detect_cards result reaches
\* the card history update (a malformed entry or a missing width/height ends
\* the run by a KeyError before it)
UploadTallies(r) ==
    /\ r.has_predictions
    /\ ~r.malformed
    /\ filter_duplicates(r.predictions) # <<>>
    /\ ~draw_boxes_cv_raises(filter_duplicates(r.predictions))

\* lines 170-230: one script run with a file in the uploader.  After the card
\* history update st.rerun() (line 228) starts the script again, and the
\* uploader still holds the file.
UploadRun ==
    /\ detection_mode = "Upload Image"
    /\ uploaded_file
    /\ run_pending
    /\ \E r \in DetectResults :
          IF UploadTallies(r)
          THEN LET preds == filter_duplicates(r.predictions)
                   next == UploadTally(card_history, preds)
               IN  /\ \A c \in DOMAIN next : next[c].count <= MaxCount
                   /\ card_history' = next
                   /\ best_seen' = BestSeenAfter(best_seen, preds)
                   /\ most_seen' = MostSeenAfter(most_seen, preds)
                   /\ upload_reconciled' = TRUE
                   /\ run_pending' = TRUE
                   /\ upload_predictions' = preds
          ELSE /\ run_pending' = FALSE
               /\ upload_predictions' = <<>>
               /\ UNCHANGED <<card_history, best_seen, most_seen, upload_reconciled>>
    /\ UNCHANGED <<detection_mode, uploaded_file, changed>>
    /\ UNCHANGED <<callVars, filterVars, streamVars, reconciled>>

\* lines 241-243: the Reset Session button, then st.rerun()
ResetSession ==
    /\ card_history' = EmptyHistory
    /\ best_seen' = [c \in {} |-> 0]
    /\ most_seen' = [c \in {} |-> 0]
    /\ upload_reconciled' = FALSE
    /\ run_pending' = uploaded_file
    /\ UNCHANGED <<detection_mode, uploaded_file, changed, upload_predictions>>
    /\ UNCHANGED <<callVars, filterVars, streamVars, reconciled>>

\* lines 99-104: the mode radio.  The model lets the user change mode only
\* with the stream stopped and its threads ended; the uploader of the mode
\* left behind is gone.
SelectMode ==
    /\ ~playing
    /\ InFlight = {}
    /\ recv_pc \in {"idle", "returned", "raised"}
    /\ detection_mode' = IF detection_mode = "Live Camera"
                         THEN "Upload Image" ELSE "Live Camera"
    /\ uploaded_file' = FALSE
    /\ run_pending' = FALSE
    /\ upload_reconciled' = FALSE
    /\ upload_predictions' = <<>>
    /\ UNCHANGED <<card_history, best_seen, most_seen, changed>>
    /\ UNCHANGED <<callVars, filterVars, streamVars, reconciled>>

----------------------------------------------------------------------------
(* Specifications *)

RecvStep ==
    \/ RecvSetFlag
    \/ RecvSpawn
    \/ RecvLock
    \/ RecvCopy
    \/ RecvDraw

NextStream ==
    \/ StartStream
    \/ StopStream
    \/ RecvCheck
    \/ RecvStep
    \/ \E t \in Tasks : TaskDetect(t)
    \/ \E t \in Tasks : TaskLock(t)
    \/ \E t \in Tasks : TaskStore(t)
    \/ \E t \in Tasks : TaskFinally(t)

NextSession ==
    \/ PollLoop
    \/ UploadFile
    \/ UploadRun
    \/ ResetSession
    \/ SelectMode

Next == NextStream \/ NextSession

\* the whole application
Spec == Init /\ [][Next]_vars

\* the steps of the background threads
TaskStep ==
    \/ \E t \in Tasks : TaskDetect(t)
    \/ \E t \in Tasks : TaskStore(t)
    \/ \E t \in Tasks : TaskFinally(t)

TaskAcquire == \E t \in Tasks : TaskLock(t)

\* the live stream alone, with the scheduling the threads get: a thread that
\* can take a step takes it (detect_cards returns: its request has a timeout),
\* and a background thread waiting for the lock gets it
StreamFairness ==
    /\ WF_vars(RecvStep)
    /\ WF_vars(TaskStep)
    /\ SF_vars(TaskAcquire)

FairStreamSpec == Init /\ [][NextStream]_vars /\ StreamFairness

\* filter_duplicates on its own, over every raw list of up to MaxLen predictions
InitFilter ==
    /\ predictions \in SeqsUpTo(Predictions, MaxLen)
    /\ result = <<>>
    /\ result2 = <<>>
    /\ stage = "raw"
    /\ InitCallIdle
    /\ InitStream
    /\ InitSession

ApplyFilter ==
    /\ stage = "raw"
    /\ result' = filter_duplicates(predictions)
    /\ stage' = "filtered"
    /\ UNCHANGED <<predictions, result2, callVars, streamVars, sessionVars, reconciled>>

ApplyFilterAgain ==
    /\ stage = "filtered"
    /\ result2' = filter_duplicates(result)
    /\ stage' = "refiltered"
    /\ UNCHANGED <<predictions, result, callVars, streamVars, sessionVars, reconciled>>

NextFilter == ApplyFilter \/ ApplyFilterAgain

FilterSpec == InitFilter /\ [][NextFilter]_vars

\* detect_cards on its own, over every outcome of the HTTP request and of the
\* SDK fallback
InitDetect ==
    /\ \E o \in CallOutcomes : http_outcome = o[1] /\ sdk_outcome = o[2]
    /\ returned = NoResult
    /\ code = <<>>
    /\ full_name = <<>>
    /\ call_stage = "input"
    /\ InitFilterIdle
    /\ InitStream
    /\ InitSession

ApplyDetect ==
    /\ call_stage = "input"
    /\ returned' = detect_cards(http_outcome, sdk_outcome)
    /\ call_stage' = "done"
    /\ UNCHANGED <<http_outcome, sdk_outcome, code, full_name>>
    /\ UNCHANGED <<filterVars, streamVars, sessionVars, reconciled>>

DetectSpec == InitDetect /\ [][ApplyDetect]_vars

\* get_full_card_name on its own, over every code of up to MaxCodeLen characters
InitName ==
    /\ code \in Codes
    /\ full_name = <<>>
    /\ http_outcome = NotCalled
    /\ sdk_outcome = NotCalled
    /\ returned = NoResult
    /\ call_stage = "input"
    /\ InitFilterIdle
    /\ InitStream
    /\ InitSession

ApplyName ==
    /\ call_stage = "input"
    /\ full_name' = get_full_card_name(code)
    /\ call_stage' = "done"
    /\ UNCHANGED <<http_outcome, sdk_outcome, returned, code>>
    /\ UNCHANGED <<filterVars, streamVars, sessionVars, reconciled>>

NameSpec == InitName /\ [][ApplyName]_vars

----------------------------------------------------------------------------
(* Properties *)

Threshold2 == DUPLICATE_DISTANCE_THRESHOLD * DUPLICATE_DISTANCE_THRESHOLD

\* C1: on one stream at most one background inference thread exists at any
\* time, whatever the interleaving of recv and _run_detection.
C1_AtMostOneInFlight == Cardinality(InFlight) <= 1

\* a frame arrived while a task was outstanding and was not submitted
C1_FrameSkippedWhileBusy ==
    /\ recv_pc = "lock"
    /\ ~recv_submitted
    /\ \E t \in Tasks : task_pc[t] \in {"detect", "lock"}

\* C2: every step other than the reset keeps each tallied class and does not
\* lower its count; the reset leaves the tally empty.
C2_CountsNonDecreasing ==
    [][IF ResetSession
       THEN card_history' = EmptyHistory
       ELSE \A c \in DOMAIN card_history :
               /\ c \in DOMAIN card_history'
               /\ card_history'[c].count >= card_history[c].count]_vars

\* the tally holds a count of 2 while the frame being reconciled shows one
\* instance of that class
C2_CountKeptAboveFrame ==
    /\ detection_mode = "Live Camera"
    /\ playing
    /\ \E c \in DOMAIN card_history :
          /\ card_history[c].count = 2
          /\ c \in ClassesIn(last_predictions)
          /\ CurrentCounts(last_predictions)[c].count = 1

\* C3: for every tallied class the stored confidence is the maximum
\* confidence of the predictions of that class tallied since the reset.
C3_ConfidenceIsBestSeen ==
    \A c \in DOMAIN card_history : card_history[c].confidence = best_seen[c]

\* C4: once the held upload has been tallied, the tally does not change
\* again until another upload or a reset.
C4_TalliedOncePerUpload ==
    [][(upload_reconciled /\ upload_reconciled') => card_history' = card_history]_vars

\* C5: when a background task ends after a failed call or a response without
\* a predictions field, the shared state holds the empty prediction set.
C5_FailureStoresEmpty ==
    \A t \in Tasks :
        (/\ task_pc[t] = "finally"
         /\ (~task_result[t].has_predictions \/ task_result[t].malformed))
            => last_predictions = <<>>

\* C6: whenever the busy flag is set it is cleared again, on every way out
\* of the background task.
C6_BusyFlagReleased == detection_running ~> ~detection_running

\* a task is about to leave by a path that stored nothing, with the flag set
C6_ErrorPathAtFinally ==
    \E t \in Tasks :
        /\ task_pc[t] = "finally"
        /\ (~task_result[t].has_predictions \/ task_result[t].malformed)
        /\ detection_running

\* C7: recv returns a frame for every incoming frame, whatever predictions
\* the shared state holds.
C7_RecvAlwaysReturnsFrame == recv_pc # "raised"

\* C8: every output of filter_duplicates has confidence >= the threshold, and
\* an input at exactly the threshold with no same-class neighbour in the input
\* is in the output.
C8_OutputsConfident ==
    stage # "raw" =>
        /\ \A j \in 1..Len(result) : result[j].confidence >= CONFIDENCE_THRESHOLD
        /\ \A i \in 1..Len(predictions) :
              (/\ predictions[i].confidence = CONFIDENCE_THRESHOLD
               /\ \A k \in 1..Len(predictions) :
                     k # i => predictions[k].class # predictions[i].class)
                  => \E j \in 1..Len(result) : result[j] = predictions[i]

\* an input at exactly the threshold was kept and one below it was dropped
C8_ThresholdKeptLowerDropped ==
    /\ stage = "filtered"
    /\ \E j \in 1..Len(result) : result[j].confidence = CONFIDENCE_THRESHOLD
    /\ \E i \in 1..Len(predictions) : predictions[i].confidence < CONFIDENCE_THRESHOLD

\* C9: no two outputs of filter_duplicates have the same class and centers
\* less than 250 px apart, and a confident input whose same-class outputs are
\* all 250 px or more away is itself an output.
C9_NoCloseSameClassPair ==
    stage # "raw" =>
        /\ \A i, j \in 1..Len(result) :
              (i # j /\ result[i].class = result[j].class)
                  => Dist2(result[i], result[j]) >= Threshold2
        /\ \A i \in 1..Len(predictions) :
              (/\ predictions[i].confidence >= CONFIDENCE_THRESHOLD
               /\ \A j \in 1..Len(result) :
                     result[j].class = predictions[i].class
                         => Dist2(predictions[i], result[j]) >= Threshold2)
                  => \E j \in 1..Len(result) : result[j] = predictions[i]

\* two same-class outputs exactly 250 px apart, and a third input dropped as
\* a duplicate
C9_KeptAtExactly250 ==
    /\ stage = "filtered"
    /\ Len(result) < Len(SelectSeq(predictions, KeepConfident))
    /\ \E i, j \in 1..Len(result) :
          /\ i # j
          /\ result[i].class = result[j].class
          /\ Dist2(result[i], result[j]) = Threshold2

\* C10: filter_duplicates applied to its own output returns that output, in
\* the same order.
C10_FilterIdempotent == stage = "refiltered" => result2 = result

\* a refiltered list that lost a duplicate and holds two equal confidences
C10_RefilteredWithTies ==
    /\ stage = "refiltered"
    /\ Len(result) < Len(predictions)
    /\ \E i, j \in 1..Len(result) :
          i # j /\ result[i].confidence = result[j].confidence

\* how many predictions of a list are of class c
InstancesOf(preds, c) == Cardinality({i \in 1..Len(preds) : preds[i].class = c})

\* C11: in every iteration of the live polling loop the changed flag is true
\* exactly when the reconcile step modified the tally (it inserted a class
\* or raised a stored count); a frame whose counts are all at most the
\* stored ones leaves the tally as it was and changed false.
C11_ChangedIffTallyModified ==
    [][PollLoop => (changed' <=> (card_history' # card_history))]_vars

\* an iteration has run on a frame that shows fewer cards of a class than the
\* tally holds: nothing changed
C11_NoChangeOnLowerFrame ==
    /\ playing
    /\ reconciled
    /\ ~changed
    /\ "KH" \in DOMAIN card_history
    /\ card_history["KH"].count = 2
    /\ ClassesIn(last_predictions) = {"KH"}
    /\ Len(last_predictions) = 1

\* C12: a polling iteration leaves the tally entry (count and confidence) of
\* every class that is not in the current frame as it was, and removes no
\* entry.
C12_AbsentClassesUntouched ==
    [][PollLoop =>
          \A c \in DOMAIN card_history :
              /\ c \in DOMAIN card_history'
              /\ c \notin ClassesIn(last_predictions)
                    => card_history'[c] = card_history[c]]_vars

\* an iteration has run on a frame without a class the tally holds
C12_TalliedClassOutOfFrame ==
    /\ playing
    /\ reconciled
    /\ DOMAIN card_history = {"KH", "7S"}
    /\ ClassesIn(last_predictions) = {"KH"}
    /\ card_history["7S"].count = 1

\* C13 as stated: no completed inference result is overwritten by a later
\* one before a polling iteration has read it.
C13_NoResultOverwrittenUnread ==
    [][(playing /\ \E t \in Tasks : TaskStore(t) /\ ~task_result[t].malformed)
          => reconciled]_vars

\* C13: a completed inference result with a well-formed predictions list
\* becomes last_predictions, filtered; a polling iteration reads the result
\* stored at that moment, and after it every class of that result is in the
\* tally with at least the count the result shows.
C13_StoredResultReconciled ==
    [][/\ \A t \in Tasks :
             (task_pc[t] = "store" /\ task_pc'[t] = "finally"
                  /\ ~task_result[t].malformed)
                => /\ last_predictions' = filter_duplicates(task_result[t].predictions)
                   /\ ~reconciled'
       /\ PollLoop =>
             /\ reconciled'
             /\ \A c \in ClassesIn(last_predictions) :
                   /\ c \in DOMAIN card_history'
                   /\ card_history'[c].count
                         >= InstancesOf(last_predictions, c)]_vars

\* a result of two cards of a class has been stored and reconciled
C13_TwoCardResultReconciled ==
    /\ playing
    /\ reconciled
    /\ Len(last_predictions) = 2
    /\ ClassesIn(last_predictions) = {"KH"}
    /\ "KH" \in DOMAIN card_history
    /\ card_history["KH"].count = 2

C17_UploadCountIsMax ==
    [][UploadRun =>
          \A c \in DOMAIN card_history' :
              card_history'[c].count =
                  Max(IF c \in DOMAIN card_history THEN card_history[c].count ELSE 0,
                      InstancesOf(upload_predictions', c))]_vars

\* C19 as stated: recv and _run_detection read and write detection_running
\* only while they hold the lock.
C19_FlagAccessUnderLock ==
    [][/\ (RecvCheck \/ RecvSetFlag) => lock = "recv"
       /\ (\E t \in Tasks : TaskFinally(t)) => lock = "task"]_vars

\* what filter_duplicates returns for the prediction lists of the service
FilteredOutputs == {filter_duplicates(p.items) : p \in Payloads}

IsFilteredPredictionSet(preds) ==
    /\ preds \in FilteredOutputs
    /\ \A i \in 1..Len(preds) : preds[i].confidence >= CONFIDENCE_THRESHOLD
    /\ \A i, j \in 1..Len(preds) :
          (i # j /\ preds[i].class = preds[j].class)
             => Dist2(preds[i], preds[j]) >= Threshold2

\* C20: in every reachable state last_predictions, and the copy recv has read
\* of it, is the empty list or the whole output of filter_duplicates for one
\* response: confident entries only, no two of a class closer than 250.
C20_LastPredictionsFiltered ==
    /\ IsFilteredPredictionSet(last_predictions)
    /\ IsFilteredPredictionSet(recv_predictions)

\* a thread has stored the filtered form of a response that filtering shortened
C20_ShortenedResultStored ==
    \E t \in Tasks :
        /\ task_pc[t] = "finally"
        /\ task_result[t].has_predictions
        /\ ~task_result[t].malformed
        /\ last_predictions = filter_duplicates(task_result[t].predictions)
        /\ last_predictions # <<>>
        /\ Len(last_predictions) < Len(task_result[t].predictions)

Failed(h) == h.kind \in {"RequestException", "Exception"}

\* C14 as stated: after a transport or parse failure detect_cards returns
\* exactly the result with an empty predictions list.
C14_FailureReturnsEmpty ==
    (call_stage = "done" /\ Failed(http_outcome)) => returned = EmptyResult

\* C14: after a failure detect_cards returns the result with an empty
\* predictions list, except that after a RequestException it returns what the
\* SDK fallback returned, with or without predictions, when the fallback
\* returns; it never raises.
C14_FailureReturnsEmptyOrFallback ==
    (call_stage = "done" /\ Failed(http_outcome)) =>
        IF http_outcome.kind = "RequestException" /\ sdk_outcome.kind = "result"
        THEN /\ returned.has_predictions = sdk_outcome.has_predictions
             /\ returned.has_predictions =>
                   /\ returned.predictions = sdk_outcome.payload.items
                   /\ returned.malformed = sdk_outcome.payload.malformed
        ELSE /\ returned.has_predictions
             /\ ~returned.malformed
             /\ returned.predictions = <<>>

\* the request and the fallback have both failed
C14_BothFailed ==
    /\ call_stage = "done"
    /\ http_outcome.kind = "RequestException"
    /\ sdk_outcome.kind = "raises"
    /\ returned = EmptyResult

IsFormattedName(name) == name # <<>> /\ name[1] # "joker"

RankPart(c) == SubSeq(c, 1, Len(c) - 1)

\* C16 as stated: get_full_card_name returns the formatted name exactly when
\* the code has two or more characters, its last character is one of H, D,
\* S, C and the rest is a known rank; otherwise the fallback holding the code.
C16_FormattedIffSuitLetter ==
    call_stage = "done" =>
        /\ IsFormattedName(full_name) <=>
              /\ Len(code) >= 2
              /\ code[Len(code)] \in {"H", "D", "S", "C"}
              /\ RankPart(code) \in DOMAIN RANKS
        /\ ~IsFormattedName(full_name) =>
              SubSeq(full_name, 3, Len(full_name)) = code

\* C16: get_full_card_name returns for every code; it returns the formatted
\* name (emoji, rank name, " of ", suit name) exactly when the code has two
\* or more characters, its last character in upper case is one of H, D, S, C
\* and the rest is a known rank; otherwise the fallback holding the code
\* as it came.
C16_FormattedIffUpperSuitLetter ==
    call_stage = "done" =>
        /\ IsFormattedName(full_name) <=>
              /\ Len(code) >= 2
              /\ upper(code[Len(code)]) \in {"H", "D", "S", "C"}
              /\ RankPart(code) \in DOMAIN RANKS
        /\ IsFormattedName(full_name) =>
              /\ Len(full_name) = 5
              /\ full_name[1] = SUITS[upper(code[Len(code)])].emoji
              /\ full_name[3] = RANKS[RankPart(code)]
              /\ full_name[5] = SUITS[upper(code[Len(code)])].name
        /\ ~IsFormattedName(full_name) =>
              /\ full_name[1] = "joker"
              /\ SubSeq(full_name, 3, Len(full_name)) = code

\* the ten of hearts, its suit letter in lower case
C16_LowerCaseSuitFormatted ==
    /\ call_stage = "done"
    /\ code = <<"1", "0", "h">>
    /\ full_name = <<"heart suit", " ", "10", " of ", "Hearts">>

FirstIndex(p) == CHOOSE k \in 1..Len(predictions) :
                    /\ predictions[k] = p
                    /\ \A m \in 1..(k - 1) : predictions[m] # p

Outputs == {result[i] : i \in 1..Len(result)}

\* C18: the output of filter_duplicates is the greedy reference: confident
\* inputs in order of non-increasing confidence, equal confidences in input
\* order, and every confident input not in the output has the class of, and
\* is less than 250 from, an output entry that comes before it in that order.
C18_GreedyReference ==
    stage # "raw" =>
        /\ \A i \in 1..Len(result) :
              /\ \E k \in 1..Len(predictions) : predictions[k] = result[i]
              /\ result[i].confidence >= CONFIDENCE_THRESHOLD
        /\ \A i, j \in 1..Len(result) :
              i < j =>
                 \/ result[i].confidence > result[j].confidence
                 \/ /\ result[i].confidence = result[j].confidence
                    /\ FirstIndex(result[i]) < FirstIndex(result[j])
        /\ \A k \in 1..Len(predictions) :
              (predictions[k].confidence >= CONFIDENCE_THRESHOLD
                  /\ predictions[k] \notin Outputs) =>
                 \E j \in 1..Len(result) :
                    /\ result[j].class = predictions[k].class
                    /\ Dist2(predictions[k], result[j]) < Threshold2
                    /\ \/ result[j].confidence > predictions[k].confidence
                       \/ /\ result[j].confidence = predictions[k].confidence
                          /\ FirstIndex(result[j]) < k

\* three confident inputs, one dropped behind an equal-confidence entry that
\* came earlier in the input, two kept with equal confidence
C18_DroppedBehindEarlierTie ==
    /\ stage = "filtered"
    /\ Len(predictions) = 3
    /\ \A k \in 1..3 : predictions[k].confidence = 90
    /\ Len(result) = 2
    /\ result[1] = predictions[1]
    /\ predictions[2] \notin Outputs
    /\ predictions[2].class = predictions[1].class

\* C21: in live mode, after a polling iteration, for every class in the tally
\* the stored count is the largest number of instances of that class in any
\* single prediction set tallied since the last reset, and so at least 1.
C21_CountIsMostSeen ==
    [][PollLoop =>
          \A c \in DOMAIN card_history' :
              /\ c \in DOMAIN most_seen'
              /\ card_history'[c].count = most_seen'[c]
              /\ card_history'[c].count >= 1]_vars

====
